---- MODULE Spec2Model ----
(***************************************************************************)
(* The hand-written HTTP exchange primitive of docker-client:              *)
(*   src/src/http/url.rs       URI, URIBuilder                             *)
(*   src/src/http/request.rs   Request, RequestBuilder, Request::send      *)
(*   src/src/http/response.rs  Response, Response::read                    *)
(* Strings are sequences of one-byte characters, so that rendering and     *)
(* parsing are computed as the code computes them.                         *)
(***************************************************************************)
EXTENDS Integers, Sequences, FiniteSets, TLC

VARIABLES
    ub,         \* Option<URIBuilder>: the URI builder under construction
    uri,        \* Option<URI>: the value returned by URIBuilder::build
    uri_str,    \* Option<String>: the value returned by URI::to_string
    rb,         \* Option<RequestBuilder>: the request builder under construction
    req,        \* Option<Request>: the value returned by RequestBuilder::build
    rendered,   \* Option<String>: the value returned by Request::to_string
    params_log, \* what the caller asked of the URI builder: for each key the value
                \* the latest parameter(key, value) call passed, and whether some
                \* call replaced another value of its key
    client,     \* Option<DockerClient>: the client built by DockerClient::unix/stream
    call,       \* Option: the DockerClient operation called last, what the
                \* transport did with its request, and what it returned
    pc,         \* position of the Request::send call
    stream,     \* the UnixStream: what was written, what the peer still has to
                \* send, what waits in the receive buffer, whether the peer closed
    resp,       \* the Response under construction in Response::read
    current_len,\* the local current_len of Response::read
    io,         \* the calls made on the stream: how many write_all, read, reads
                \* of 0 bytes, failed reads, Response::read, and the bytes the
                \* first read returned
    peer        \* the message the peer answers with (never changes)

vars == <<ub, uri, uri_str, rb, req, rendered, params_log, client, call, pc, stream, resp, current_len, io, peer>>

builderVars == <<ub, uri, uri_str, rb, req, rendered, params_log>>
clientVars == <<client, call>>
sendVars == <<pc, stream, resp, current_len, io, peer>>

----------------------------------------------------------------------------
(* Option<T> *)
None == <<>>
Some(x) == <<x>>
IsSome(o) == Len(o) = 1
Unwrap(o) == o[1]

----------------------------------------------------------------------------
(* Characters and string literals *)
CR == "<CR>"
LF == "<LF>"
CRLF == <<CR, LF>>
BLANK_LINE == <<CR, LF, CR, LF>>
\* the two bytes of one two-byte UTF-8 character (U+00E9)
LEAD == "<C3>"
CONT == "<A9>"

Digits == <<"0", "1", "2", "3", "4", "5", "6", "7", "8", "9">>

STR_GET == <<"G", "E", "T">>
STR_POST == <<"P", "O", "S", "T">>
STR_DELETE == <<"D", "E", "L", "E", "T", "E">>
STR_HTTP11 == <<" ", "H", "T", "T", "P", "/", "1", ".", "1">>
STR_HOST_LINE == <<"H", "o", "s", "t", ":", " ", "1", "2", "7", ".", "0", ".", "0", ".", "1">>
STR_CONTENT_LENGTH == <<"C", "o", "n", "t", "e", "n", "t", "-", "L", "e", "n", "g", "t", "h">>
STR_CONTENT_TYPE == <<"C", "o", "n", "t", "e", "n", "t", "-", "T", "y", "p", "e">>
STR_HOST == <<"H", "o", "s", "t">>
STR_APPLICATION_JSON == <<"a", "p", "p", "l", "i", "c", "a", "t", "i", "o", "n", "/", "j", "s", "o", "n">>
STR_COLON_SP == <<":", " ">>
\* the pattern Response::from looks for in each header line
STR_CONTENT_LENGTH_COLON == STR_CONTENT_LENGTH \o <<":">>

----------------------------------------------------------------------------
(* The str and String operations the code uses *)

\* does pat occur in s at index i
MatchAt(s, pat, i) ==
    /\ i >= 1
    /\ i + Len(pat) - 1 <= Len(s)
    /\ \A j \in 1..Len(pat) : s[i + j - 1] = pat[j]

\* index of the first occurrence of pat in s, 0 when there is none
Find(s, pat) ==
    LET hits == {i \in 1..Len(s) : MatchAt(s, pat, i)}
    IN  IF hits = {} THEN 0 ELSE CHOOSE i \in hits : \A j \in hits : i <= j

\* str::contains
Contains(s, pat) == Find(s, pat) # 0

\* str::starts_with
StartsWith(s, pat) == MatchAt(s, pat, 1)

\* str::split(pat).collect(): the pieces between the successive, non-overlapping
\* occurrences of pat, scanning from the left; one piece when pat does not occur
RECURSIVE Split(_, _)
Split(s, pat) ==
    LET i == Find(s, pat)
    IN  IF i = 0
        THEN <<s>>
        ELSE <<SubSeq(s, 1, i - 1)>> \o Split(SubSeq(s, i + Len(pat), Len(s)), pat)

IsSpace(c) == c \in {" ", CR, LF, "<TAB>"}

\* str::trim
RECURSIVE TrimStart(_)
TrimStart(s) == IF s # <<>> /\ IsSpace(s[1]) THEN TrimStart(Tail(s)) ELSE s
RECURSIVE TrimEnd(_)
TrimEnd(s) ==
    IF s # <<>> /\ IsSpace(s[Len(s)]) THEN TrimEnd(SubSeq(s, 1, Len(s) - 1)) ELSE s
Trim(s) == TrimEnd(TrimStart(s))

\* String::pop: removes the last character, if there is one
Pop(s) == IF s = <<>> THEN s ELSE SubSeq(s, 1, Len(s) - 1)

DigitValue(c) == (CHOOSE i \in 1..10 : Digits[i] = c) - 1
IsDigit(c) == \E i \in 1..10 : Digits[i] = c

\* str::parse::<usize>() and parse::<i32>() on a decimal numeral: Some(n), or
\* None where the code's unwrap() panics (empty, or a character that is no digit)
RECURSIVE DigitsValue(_)
DigitsValue(s) ==
    IF s = <<>> THEN 0 ELSE 10 * DigitsValue(SubSeq(s, 1, Len(s) - 1)) + DigitValue(s[Len(s)])
Parse(s) ==
    IF s # <<>> /\ \A i \in 1..Len(s) : IsDigit(s[i]) THEN Some(DigitsValue(s)) ELSE None

\* format!("{}", n) of an unsigned number
RECURSIVE Display(_)
Display(n) ==
    IF n < 10 THEN <<Digits[n + 1]>> ELSE Display(n \div 10) \o <<Digits[(n % 10) + 1]>>

\* std::str::from_utf8(bytes).is_ok(), for bytes that are ASCII or the two bytes
\* LEAD CONT of a two-byte character: a LEAD must be followed by a CONT and a
\* CONT must follow a LEAD
Utf8Valid(bytes) ==
    \A i \in 1..Len(bytes) :
        /\ bytes[i] = LEAD => (i < Len(bytes) /\ bytes[i + 1] = CONT)
        /\ bytes[i] = CONT => (i > 1 /\ bytes[i - 1] = LEAD)

\* HashMap::insert
Insert(m, k, v) == [x \in (DOMAIN m) \cup {k} |-> IF x = k THEN v ELSE m[x]]
EmptyMap == [x \in {} |-> <<>>]

\* the orders in which iterating a HashMap may visit the keys of m
IterOrders(m) ==
    {o \in [1..Cardinality(DOMAIN m) -> DOMAIN m] :
        \A i, j \in 1..Cardinality(DOMAIN m) : i # j => o[i] # o[j]}

----------------------------------------------------------------------------
(* src/src/http/url.rs *)

\* URIBuilder::default and URI::default
URIDefault == [url |-> <<>>, params |-> EmptyMap]

\* URIBuilder::url
URIBuilder_url(b, url) == [b EXCEPT !.url = url]

\* URI::with_path
URI_with_path(url) == [URIDefault EXCEPT !.url = url]

\* a parameter that keeps the value a key already has
URIBuilder_parameter_KeepFirst(b, key, value) ==
    IF key \in DOMAIN b.params THEN b ELSE [b EXCEPT !.params = Insert(b.params, key, value)]

\* URIBuilder::parameter
URIBuilder_parameter(b, key, value) == [b EXCEPT !.params = Insert(b.params, key, value)]

\* URIBuilder::build
URIBuilder_build(b) == [url |-> b.url, params |-> b.params]

\* the body of the for loop of URI::to_string, over the keys in iteration order
RECURSIVE PushParams(_, _, _)
PushParams(url, params, order) ==
    IF order = <<>>
    THEN url
    ELSE PushParams(url \o order[1] \o <<"=">> \o params[order[1]] \o <<"&">>,
                    params, Tail(order))

\* a to_string that forgets url.pop()
URI_to_string_NoPop(u, order) == PushParams(u.url \o <<"?">>, u.params, order)

\* impl ToString for URI; order is the order in which the HashMap is iterated
URI_to_string(u, order) == Pop(PushParams(u.url \o <<"?">>, u.params, order))

----------------------------------------------------------------------------
(* src/src/http/request.rs: the builder and the encoder *)

HTTPMethod == {"GET", "POST", "DELETE"}

\* RequestBuilder::default (HTTPMethod::default is GET)
RequestBuilderDefault ==
    [method |-> "GET", url |-> URIDefault, headers |-> EmptyMap, content |-> <<>>]

\* RequestBuilder::with_method, behind Request::get, Request::post, Request::delete
RequestBuilder_with_method(method) == [RequestBuilderDefault EXCEPT !.method = method]

\* RequestBuilder::method
RequestBuilder_method(b, method) == [b EXCEPT !.method = method]

\* RequestBuilder::url
RequestBuilder_url(b, url) == [b EXCEPT !.url = url]

\* RequestBuilder::header
RequestBuilder_header(b, key, value) == [b EXCEPT !.headers = Insert(b.headers, key, value)]

\* RequestBuilder::content
RequestBuilder_content(b, content) == [b EXCEPT !.content = content]

\* RequestBuilder::build
RequestBuilder_build(b) ==
    [method |-> b.method, url |-> b.url, headers |-> b.headers, content |-> b.content]

\* the first match of Request::to_string
MethodName(method) ==
    CASE method = "GET" -> STR_GET
      [] method = "POST" -> STR_POST
      [] method = "DELETE" -> STR_DELETE

\* the for loop of Request::to_string over the header map, in iteration order
RECURSIVE PushHeaders(_, _, _)
PushHeaders(headers, map, order) ==
    IF order = <<>>
    THEN headers
    ELSE PushHeaders(headers \o CRLF \o order[1] \o STR_COLON_SP \o map[order[1]],
                     map, Tail(order))

\* the headers string of Request::to_string once the second match is through
RenderedHeaders(r, horder) ==
    LET caller == PushHeaders(<<>>, r.headers, horder) \o CRLF \o STR_HOST_LINE
    IN  IF r.method = "POST" /\ Len(r.content) > 0
        THEN caller \o CRLF \o STR_CONTENT_LENGTH \o STR_COLON_SP \o Display(Len(r.content))
                    \o CRLF \o STR_CONTENT_TYPE \o STR_COLON_SP \o STR_APPLICATION_JSON
        ELSE caller

\* a to_string that adds Content-Length and Content-Type whatever the method and
\* the body
Request_to_string_AnyMethod(r, horder, porder) ==
    MethodName(r.method) \o <<" ">> \o URI_to_string(r.url, porder) \o STR_HTTP11
        \o PushHeaders(<<>>, r.headers, horder) \o CRLF \o STR_HOST_LINE
        \o CRLF \o STR_CONTENT_LENGTH \o STR_COLON_SP \o Display(Len(r.content))
        \o CRLF \o STR_CONTENT_TYPE \o STR_COLON_SP \o STR_APPLICATION_JSON
        \o BLANK_LINE \o r.content

\* impl ToString for Request; horder and porder are the orders in which the
\* header map and the parameter map are iterated
Request_to_string(r, horder, porder) ==
    MethodName(r.method) \o <<" ">> \o URI_to_string(r.url, porder) \o STR_HTTP11
        \o RenderedHeaders(r, horder) \o BLANK_LINE \o r.content

----------------------------------------------------------------------------
(* The values the callers of the builders pass *)

STR_PATH == <<"/", "c">>
Paths == {STR_PATH, <<"/", "v">>}
ParamKeys == {<<"v">>, <<"f">>, <<"l">>}
ParamValues == {<<"1">>, <<"t">>}
HeaderKeys == {STR_CONTENT_LENGTH, STR_CONTENT_TYPE, STR_HOST}
HeaderValue(key) ==
    CASE key = STR_CONTENT_LENGTH -> <<"7">>
      [] key = STR_CONTENT_TYPE -> <<"t">>
      [] key = STR_HOST -> <<"h">>
Contents == {<<>>, <<"{", "}">>}

----------------------------------------------------------------------------
(* The builder calls as actions *)

\* no DockerClient built yet
NoClient == [state |-> "none", host |-> <<>>, config |-> "none", auth |-> None]

\* no DockerClient operation called yet
NoRequest == [method |-> "none", uri |-> [scheme |-> "none", authority |-> <<>>, path_and_query |-> <<>>],
              headers |-> <<>>, body |-> "none"]
NoResult == [kind |-> "none", error |-> "none"]
NoCall == [op |-> "none", id |-> <<>>, wait |-> None, force |-> FALSE, name |-> <<>>,
           condition |-> <<>>, path |-> <<>>, request |-> NoRequest, attempts |-> <<>>,
           requests |-> 0, file_ok |-> TRUE, result |-> NoResult]

BuilderInit ==
    /\ ub = None
    /\ uri = None
    /\ uri_str = None
    /\ rb = None
    /\ req = None
    /\ rendered = None
    /\ params_log = [last |-> EmptyMap, replaced |-> FALSE]
    /\ client = NoClient
    /\ call = NoCall

\* URI::new()
URINew ==
    /\ ub = None
    /\ ub' = Some(URIDefault)
    /\ UNCHANGED <<uri, uri_str, rb, req, rendered, params_log, clientVars, sendVars>>

\* URI::with_path(url)
URIWithPath ==
    /\ ub = None
    /\ \E url \in Paths : ub' = Some(URI_with_path(url))
    /\ UNCHANGED <<uri, uri_str, rb, req, rendered, params_log, clientVars, sendVars>>

\* builder.url(url)
URIBuilderUrl ==
    /\ IsSome(ub) /\ uri = None
    /\ \E url \in Paths : ub' = Some(URIBuilder_url(Unwrap(ub), url))
    /\ UNCHANGED <<uri, uri_str, rb, req, rendered, params_log, clientVars, sendVars>>

\* builder.parameter(key, value)
URIBuilderParameter ==
    /\ IsSome(ub) /\ uri = None
    /\ \E key \in ParamKeys, value \in ParamValues :
           /\ ub' = Some(URIBuilder_parameter(Unwrap(ub), key, value))
           /\ params_log' =
                  [last |-> [k \in (DOMAIN params_log.last) \cup {key} |->
                                IF k = key THEN value ELSE params_log.last[k]],
                   replaced |-> \/ params_log.replaced
                                \/ (key \in DOMAIN params_log.last /\ params_log.last[key] # value)]
    /\ UNCHANGED <<uri, uri_str, rb, req, rendered, clientVars, sendVars>>

\* builder.build()
URIBuilderBuild ==
    /\ IsSome(ub) /\ uri = None
    /\ uri' = Some(URIBuilder_build(Unwrap(ub)))
    /\ UNCHANGED <<ub, uri_str, rb, req, rendered, params_log, clientVars, sendVars>>

\* uri.to_string()
URIToString ==
    /\ IsSome(uri) /\ uri_str = None
    /\ \E order \in IterOrders(Unwrap(uri).params) :
           uri_str' = Some(URI_to_string(Unwrap(uri), order))
    /\ UNCHANGED <<ub, uri, rb, req, rendered, params_log, clientVars, sendVars>>

\* Request::new(), Request::get(), Request::post(), Request::delete()
RequestNew ==
    /\ rb = None
    /\ \/ rb' = Some(RequestBuilderDefault)
       \/ \E method \in HTTPMethod : rb' = Some(RequestBuilder_with_method(method))
    /\ UNCHANGED <<ub, uri, uri_str, req, rendered, params_log, clientVars, sendVars>>

\* builder.method(method)
RequestBuilderMethod ==
    /\ IsSome(rb) /\ req = None
    /\ \E method \in HTTPMethod : rb' = Some(RequestBuilder_method(Unwrap(rb), method))
    /\ UNCHANGED <<ub, uri, uri_str, req, rendered, params_log, clientVars, sendVars>>

\* builder.url(uri.build())
RequestBuilderUrl ==
    /\ IsSome(rb) /\ req = None /\ IsSome(uri)
    /\ rb' = Some(RequestBuilder_url(Unwrap(rb), Unwrap(uri)))
    /\ UNCHANGED <<ub, uri, uri_str, req, rendered, params_log, clientVars, sendVars>>

\* builder.header(key, value)
RequestBuilderHeader ==
    /\ IsSome(rb) /\ req = None
    /\ \E key \in HeaderKeys :
           rb' = Some(RequestBuilder_header(Unwrap(rb), key, HeaderValue(key)))
    /\ UNCHANGED <<ub, uri, uri_str, req, rendered, params_log, clientVars, sendVars>>

\* builder.content(content)
RequestBuilderContent ==
    /\ IsSome(rb) /\ req = None
    /\ \E content \in Contents : rb' = Some(RequestBuilder_content(Unwrap(rb), content))
    /\ UNCHANGED <<ub, uri, uri_str, req, rendered, params_log, clientVars, sendVars>>

\* builder.build()
RequestBuilderBuild ==
    /\ IsSome(rb) /\ req = None
    /\ req' = Some(RequestBuilder_build(Unwrap(rb)))
    /\ UNCHANGED <<ub, uri, uri_str, rb, rendered, params_log, clientVars, sendVars>>

\* request.to_string()
RequestToString ==
    /\ IsSome(req) /\ rendered = None
    /\ \E horder \in IterOrders(Unwrap(req).headers),
          porder \in IterOrders(Unwrap(req).url.params) :
           rendered' = Some(Request_to_string(Unwrap(req), horder, porder))
    /\ UNCHANGED <<ub, uri, uri_str, rb, req, params_log, clientVars, sendVars>>

----------------------------------------------------------------------------
(* src/src/http/response.rs: the decoder *)

\* the size of the two read buffers of Response::read
BufSize == 1024

\* the header name as a peer that writes it in lower case sends it
STR_LOWER_CONTENT_LENGTH == <<"c", "o", "n", "t", "e", "n", "t", "-", "l", "e", "n", "g", "t", "h">>

\* a scan that also takes the header written in lower case
RECURSIVE ScanContentLength_AnyCase(_, _)
ScanContentLength_AnyCase(headers, content_length) ==
    IF headers = <<>>
    THEN Some(content_length)
    ELSE IF \/ Contains(headers[1], STR_CONTENT_LENGTH_COLON)
            \/ Contains(headers[1], STR_LOWER_CONTENT_LENGTH \o <<":">>)
         THEN LET parsed == Parse(Trim(Split(headers[1], <<":">>)[2]))
              IN  IF IsSome(parsed)
                  THEN ScanContentLength_AnyCase(Tail(headers), Unwrap(parsed))
                  ELSE None
         ELSE ScanContentLength_AnyCase(Tail(headers), content_length)

\* the for loop of Response::from over the header lines: the value of
\* content_length after the loop, or None where parse().unwrap() panics
RECURSIVE ScanContentLength(_, _)
ScanContentLength(headers, content_length) ==
    IF headers = <<>>
    THEN Some(content_length)
    ELSE IF Contains(headers[1], STR_CONTENT_LENGTH_COLON)
         THEN LET parsed == Parse(Trim(Split(headers[1], <<":">>)[2]))
              IN  IF IsSome(parsed)
                  THEN ScanContentLength(Tail(headers), Unwrap(parsed))
                  ELSE None
         ELSE ScanContentLength(Tail(headers), content_length)

\* headers[0].split(" ")[1].parse().unwrap(): None where the index or the unwrap
\* panics
StatusCode(status_line) ==
    LET parts == Split(status_line, <<" ">>)
    IN  IF Len(parts) < 2 THEN None ELSE Parse(parts[2])

\* impl From<String> for Response: Some(response), or None where it panics
ResponseFrom(text) ==
    LET components == Split(text, BLANK_LINE)
        header == components[1]
        headers == Split(header, CRLF)
        content_length == ScanContentLength(headers, 0)
        status_code == StatusCode(headers[1])
    IN  IF Len(components) # 2
        THEN None
        ELSE IF content_length = None \/ status_code = None
             THEN None
             ELSE Some([status |-> Unwrap(status_code),
                        body |-> components[2],
                        content_length |-> Unwrap(content_length)])

\* the bytes one stream.read into a buffer of BufSize bytes returns: what waits
\* in the receive buffer, up to the size of the buffer
ReadBytes(rcv) == SubSeq(rcv, 1, IF Len(rcv) < BufSize THEN Len(rcv) ELSE BufSize)

----------------------------------------------------------------------------
(* The peer: the message it answers with and how it delivers it *)

\* the peer sends at most MaxShort bytes fewer and at most MaxExcess bytes more
\* than the Content-Length it declares
MaxShort == 1
MaxExcess == 1
\* reads that return 0 bytes followed up to this number
MaxEofReads == 2

STR_API_VERSION_LINE == <<"A", "p", "i", "-", "V", "e", "r", "s", "i", "o", "n", ":", " ", "1", ".", "4", "0">>

\* the status lines the peer may send, with the status code each carries (-1:
\* none can be read from it)
StatusLines ==
    { [line |-> <<"H", "T", "T", "P", "/", "1", ".", "1", " ", "2", "0", "0", " ", "O", "K">>,
       code |-> 200],
      [line |-> <<"H", "T", "T", "P", "/", "1", ".", "1", " ", "2", "0", "4", " ", "N", "o", " ", "C", "o", "n", "t", "e", "n", "t">>,
       code |-> 204],
      [line |-> <<"H", "T", "T", "P", "/", "1", ".", "1", " ", "O", "K">>, code |-> -1],
      [line |-> <<"H", "T", "T", "P", "/", "1", ".", "1">>, code |-> -1] }

\* everything the peer sends after the blank line
Bodies == { <<>>, <<"a", "b">>, <<LEAD, CONT>>, BLANK_LINE }

\* the header naming the length: none, Content-Length, or content-length
LengthHeaders == {"none", "Content-Length", "content-length"}

\* the lengths a peer sending body declares
Declared(body) ==
    {n \in 0..(Len(body) + MaxShort) : n + MaxExcess >= Len(body)}

PeerMessages ==
    { [status |-> sl.code, status_line |-> sl.line, length_header |-> h,
       declared |-> n, body |-> b, cut |-> c, closes |-> cl] :
        sl \in StatusLines, h \in {"none"}, n \in {0}, b \in Bodies,
        c \in BOOLEAN, cl \in BOOLEAN }
    \cup
    UNION { { [status |-> sl.code, status_line |-> sl.line, length_header |-> h,
               declared |-> n, body |-> b, cut |-> c, closes |-> cl] :
                sl \in StatusLines, h \in LengthHeaders \ {"none"}, n \in Declared(b),
                c \in BOOLEAN, cl \in BOOLEAN } : b \in Bodies }

\* the header block of the message, the blank line included
HeaderBlock(p) ==
    p.status_line \o CRLF \o STR_API_VERSION_LINE
        \o ( CASE p.length_header = "none" -> <<>>
               [] p.length_header = "Content-Length" ->
                    CRLF \o STR_CONTENT_LENGTH \o STR_COLON_SP \o Display(p.declared)
               [] p.length_header = "content-length" ->
                    CRLF \o STR_LOWER_CONTENT_LENGTH \o STR_COLON_SP \o Display(p.declared) )
        \o BLANK_LINE

\* the pieces the peer sends one after the other: the header block, whole or cut
\* inside its blank line, then the body byte by byte (the receive buffer joins
\* the pieces that arrive before a read)
Pieces(p) ==
    LET head == HeaderBlock(p)
    IN  ( IF p.cut
          THEN <<SubSeq(head, 1, Len(head) - 2), SubSeq(head, Len(head) - 1, Len(head))>>
          ELSE <<head>> )
        \o [i \in 1..Len(p.body) |-> <<p.body[i]>>]

\* the requests Request::send is called on
SampleRequests ==
    { RequestBuilder_build(
          RequestBuilder_url(RequestBuilder_with_method("DELETE"),
              URIBuilder_build(URIBuilder_parameter(URI_with_path(STR_PATH), <<"v">>, <<"t">>)))),
      RequestBuilder_build(
          RequestBuilder_content(
              RequestBuilder_url(RequestBuilder_with_method("POST"),
                  URIBuilder_build(URI_with_path(STR_PATH))),
              <<"{", "}">>)) }

----------------------------------------------------------------------------
(* src/src/http/request.rs: Request::send, and Response::read under it *)

NoResponse == [status |-> 0, body |-> <<>>, content_length |-> 0]

SendIdle ==
    /\ pc = "idle"
    /\ stream = [written |-> <<>>, todo |-> <<>>, rcv |-> <<>>, closed |-> FALSE]
    /\ resp = NoResponse
    /\ current_len = 0
    /\ io = [writes |-> 0, reads |-> 0, eof_reads |-> 0, read_errs |-> 0, decodes |-> 0,
            first |-> <<>>]

SendInit ==
    /\ ub = None /\ uri = None /\ uri_str = None /\ rb = None /\ rendered = None
    /\ params_log = [last |-> EmptyMap, replaced |-> FALSE]
    /\ client = NoClient
    /\ call = NoCall
    /\ req \in {Some(r) : r \in SampleRequests}
    /\ peer \in PeerMessages
    /\ pc = "idle"
    /\ stream = [written |-> <<>>, todo |-> Pieces(peer), rcv |-> <<>>, closed |-> FALSE]
    /\ resp = NoResponse
    /\ current_len = 0
    /\ io = [writes |-> 0, reads |-> 0, eof_reads |-> 0, read_errs |-> 0, decodes |-> 0,
            first |-> <<>>]

\* a match that has no arm for 204
NoBody_Never(status) == FALSE

\* match resp.status { 204 => resp, ... }: the status that is returned at once
NoBody(status) == status = 204

\* while current_len < resp.content_length: the loop goes on, or read returns
AfterLoopTest(len, response) == IF len < response.content_length THEN "body" ELSE "returned"

\* a send that writes the request a second time before it reads
SendWriteOk_Twice ==
    /\ pc = "idle" /\ IsSome(req)
    /\ \E horder \in IterOrders(Unwrap(req).headers),
          porder \in IterOrders(Unwrap(req).url.params) :
           LET request == Request_to_string(Unwrap(req), horder, porder)
           IN  /\ rendered' = Some(request)
               /\ stream' = [stream EXCEPT !.written = stream.written \o request \o request]
    /\ io' = [io EXCEPT !.writes = io.writes + 2, !.decodes = io.decodes + 1]
    /\ pc' = "read"
    /\ UNCHANGED <<ub, uri, uri_str, rb, req, params_log, clientVars, resp, current_len, peer>>

\* Request::send, write_all returning Ok: the request is rendered and written, and
\* Response::read is entered
SendWriteOk ==
    /\ pc = "idle" /\ IsSome(req)
    /\ \E horder \in IterOrders(Unwrap(req).headers),
          porder \in IterOrders(Unwrap(req).url.params) :
           LET request == Request_to_string(Unwrap(req), horder, porder)
           IN  /\ rendered' = Some(request)
               /\ stream' = [stream EXCEPT !.written = stream.written \o request]
    /\ io' = [io EXCEPT !.writes = io.writes + 1, !.decodes = io.decodes + 1]
    /\ pc' = "read"
    /\ UNCHANGED <<ub, uri, uri_str, rb, req, params_log, clientVars, resp, current_len, peer>>

\* Request::send, write_all returning Err: panic!("")
SendWriteErr ==
    /\ pc = "idle" /\ IsSome(req)
    /\ \E horder \in IterOrders(Unwrap(req).headers),
          porder \in IterOrders(Unwrap(req).url.params) :
           rendered' = Some(Request_to_string(Unwrap(req), horder, porder))
    /\ io' = [io EXCEPT !.writes = io.writes + 1]
    /\ pc' = "panic"
    /\ UNCHANGED <<ub, uri, uri_str, rb, req, params_log, clientVars, stream, resp, current_len, peer>>

\* Response::read, the first stream.read returning Err: unwrap() panics
ReadFirstErr ==
    /\ pc = "read"
    /\ io' = [io EXCEPT !.reads = io.reads + 1, !.read_errs = io.read_errs + 1]
    /\ pc' = "panic"
    /\ UNCHANGED <<builderVars, clientVars, stream, resp, current_len, peer>>

\* Response::read up to its first loop test: the first stream.read returns what
\* waits in the receive buffer (0 bytes once the peer has closed), the text is
\* decoded by Response::from, and a 204 is returned at once
ReadFirst ==
    /\ pc = "read"
    /\ stream.rcv # <<>> \/ stream.closed
    /\ LET bytes == ReadBytes(stream.rcv)
           decoded == IF Utf8Valid(bytes) THEN ResponseFrom(bytes) ELSE None
       IN  /\ stream' = [stream EXCEPT !.rcv = SubSeq(stream.rcv, Len(bytes) + 1, Len(stream.rcv))]
           /\ io' = [io EXCEPT !.reads = io.reads + 1,
                               !.eof_reads = IF bytes = <<>> THEN io.eof_reads + 1
                                             ELSE io.eof_reads,
                               !.first = bytes]
           /\ IF decoded = None
              THEN /\ pc' = "panic"
                   /\ UNCHANGED <<resp, current_len>>
              ELSE /\ resp' = Unwrap(decoded)
                   /\ IF NoBody(Unwrap(decoded).status)
                      THEN /\ pc' = "returned"
                           /\ UNCHANGED current_len
                      ELSE /\ current_len' = Len(Unwrap(decoded).body)
                           /\ pc' = AfterLoopTest(Len(Unwrap(decoded).body), Unwrap(decoded))
    /\ UNCHANGED <<builderVars, clientVars, peer>>

\* Response::read, a stream.read of the loop returning Err: unwrap() panics
ReadBodyErr ==
    /\ pc = "body"
    /\ io' = [io EXCEPT !.reads = io.reads + 1, !.read_errs = io.read_errs + 1]
    /\ pc' = "panic"
    /\ UNCHANGED <<builderVars, clientVars, stream, resp, current_len, peer>>

\* one turn of the loop of Response::read: stream.read, current_len += bytes,
\* push_str of the bytes decoded as UTF-8, and the loop test
ReadBody ==
    /\ pc = "body"
    /\ stream.rcv # <<>> \/ (stream.closed /\ io.eof_reads < MaxEofReads)
    /\ LET bytes == ReadBytes(stream.rcv)
       IN  /\ stream' = [stream EXCEPT !.rcv = SubSeq(stream.rcv, Len(bytes) + 1, Len(stream.rcv))]
           /\ io' = [io EXCEPT !.reads = io.reads + 1,
                               !.eof_reads = IF bytes = <<>> THEN io.eof_reads + 1
                                             ELSE io.eof_reads]
           /\ current_len' = current_len + Len(bytes)
           /\ IF Utf8Valid(bytes)
              THEN /\ resp' = [resp EXCEPT !.body = resp.body \o bytes]
                   /\ pc' = AfterLoopTest(current_len + Len(bytes), resp)
              ELSE /\ pc' = "panic"
                   /\ UNCHANGED resp
    /\ UNCHANGED <<builderVars, clientVars, peer>>

\* the peer, once it has the request, sends its next piece
PeerSend ==
    /\ pc \in {"read", "body"}
    /\ stream.todo # <<>>
    /\ stream' = [stream EXCEPT !.rcv = stream.rcv \o Head(stream.todo),
                                !.todo = Tail(stream.todo)]
    /\ UNCHANGED <<builderVars, clientVars, pc, resp, current_len, io, peer>>

\* the peer closes the stream after its last piece
PeerClose ==
    /\ pc \in {"read", "body"}
    /\ peer.closes /\ stream.todo = <<>> /\ ~stream.closed
    /\ stream' = [stream EXCEPT !.closed = TRUE]
    /\ UNCHANGED <<builderVars, clientVars, pc, resp, current_len, io, peer>>

----------------------------------------------------------------------------
(* The specifications *)

\* Request::send on a built request, against a peer
Init == SendInit

Next ==
    \/ SendWriteOk
    \/ SendWriteErr
    \/ ReadFirstErr
    \/ ReadFirst
    \/ ReadBodyErr
    \/ ReadBody
    \/ PeerSend
    \/ PeerClose

Spec == Init /\ [][Next]_vars

\* the builders and the encoder: every sequence of builder calls, then build and
\* to_string
InitReq ==
    /\ BuilderInit
    /\ SendIdle
    /\ peer = CHOOSE p \in PeerMessages : TRUE

NextReq ==
    \/ URINew
    \/ URIWithPath
    \/ URIBuilderUrl
    \/ URIBuilderParameter
    \/ URIBuilderBuild
    \/ RequestNew
    \/ RequestBuilderMethod
    \/ RequestBuilderUrl
    \/ RequestBuilderHeader
    \/ RequestBuilderContent
    \/ RequestBuilderBuild
    \/ RequestToString

SpecReq == InitReq /\ [][NextReq]_vars

\* the URI builder alone, then build and to_string
NextURI ==
    \/ URINew
    \/ URIWithPath
    \/ URIBuilderUrl
    \/ URIBuilderParameter
    \/ URIBuilderBuild
    \/ URIToString

SpecURI == InitReq /\ [][NextURI]_vars

----------------------------------------------------------------------------
(* Builder calls made after build(): build takes &self and returns clones, so
   the builder can go on being called *)

\* the builder still holds what it held when build() was called on it
URIBuilderAsBuilt ==
    IsSome(ub) /\ IsSome(uri) /\ Unwrap(ub) = [url |-> Unwrap(uri).url, params |-> Unwrap(uri).params]
RequestBuilderAsBuilt ==
    /\ IsSome(rb) /\ IsSome(req)
    /\ Unwrap(rb) = [method |-> Unwrap(req).method, url |-> Unwrap(req).url,
                     headers |-> Unwrap(req).headers, content |-> Unwrap(req).content]

\* a builder.url(url) after build() that writes through to the URI built
URIBuilderUrlAfterBuild_Shared ==
    /\ URIBuilderAsBuilt
    /\ \E url \in Paths :
           /\ ub' = Some(URIBuilder_url(Unwrap(ub), url))
           /\ uri' = Some(URIBuilder_build(URIBuilder_url(Unwrap(ub), url)))
    /\ UNCHANGED <<uri_str, rb, req, rendered, params_log, clientVars, sendVars>>

\* builder.url(url), called after build()
URIBuilderUrlAfterBuild ==
    /\ URIBuilderAsBuilt
    /\ \E url \in Paths : ub' = Some(URIBuilder_url(Unwrap(ub), url))
    /\ UNCHANGED <<uri, uri_str, rb, req, rendered, params_log, clientVars, sendVars>>

\* builder.parameter(key, value), called after build()
URIBuilderParameterAfterBuild ==
    /\ URIBuilderAsBuilt
    /\ \E key \in ParamKeys, value \in ParamValues :
           ub' = Some(URIBuilder_parameter(Unwrap(ub), key, value))
    /\ UNCHANGED <<uri, uri_str, rb, req, rendered, params_log, clientVars, sendVars>>

\* builder.method(method), called after build()
RequestBuilderMethodAfterBuild ==
    /\ RequestBuilderAsBuilt
    /\ \E method \in HTTPMethod : rb' = Some(RequestBuilder_method(Unwrap(rb), method))
    /\ UNCHANGED <<ub, uri, uri_str, req, rendered, params_log, clientVars, sendVars>>

\* builder.url(uri), called after build()
RequestBuilderUrlAfterBuild ==
    /\ RequestBuilderAsBuilt /\ IsSome(uri)
    /\ rb' = Some(RequestBuilder_url(Unwrap(rb), Unwrap(uri)))
    /\ UNCHANGED <<ub, uri, uri_str, req, rendered, params_log, clientVars, sendVars>>

\* builder.header(key, value), called after build()
RequestBuilderHeaderAfterBuild ==
    /\ RequestBuilderAsBuilt
    /\ \E key \in HeaderKeys :
           rb' = Some(RequestBuilder_header(Unwrap(rb), key, HeaderValue(key)))
    /\ UNCHANGED <<ub, uri, uri_str, req, rendered, params_log, clientVars, sendVars>>

\* builder.content(content), called after build()
RequestBuilderContentAfterBuild ==
    /\ RequestBuilderAsBuilt
    /\ \E content \in Contents : rb' = Some(RequestBuilder_content(Unwrap(rb), content))
    /\ UNCHANGED <<ub, uri, uri_str, req, rendered, params_log, clientVars, sendVars>>

\* the builders built, then called once more, and the values built rendered
NextBuilt ==
    \/ URIWithPath
    \/ URIBuilderParameter
    \/ URIBuilderBuild
    \/ URIToString
    \/ URIBuilderUrlAfterBuild
    \/ URIBuilderParameterAfterBuild
    \/ RequestNew
    \/ RequestBuilderUrl
    \/ RequestBuilderBuild
    \/ RequestToString
    \/ RequestBuilderMethodAfterBuild
    \/ RequestBuilderUrlAfterBuild
    \/ RequestBuilderHeaderAfterBuild
    \/ RequestBuilderContentAfterBuild
SpecBuilt == InitReq /\ [][NextBuilt]_vars

----------------------------------------------------------------------------
(* The DockerClient: src/src/client/client.rs, error.rs, response.rs *)

STR_TCP_PREFIX == <<"t", "c", "p", ":", "/", "/">>
STR_CONTAINERS == <<"/", "c", "o", "n", "t", "a", "i", "n", "e", "r", "s", "/">>
STR_VOLUMES == <<"/", "v", "o", "l", "u", "m", "e", "s">>
STR_EXEC == <<"/", "e", "x", "e", "c", "/">>

\* Result<_, DockerError>, and the abort of the call (a panic)
Ok == [kind |-> "Ok", error |-> "none"]
Err(e) == [kind |-> "Err", error |-> e]
Panic == [kind |-> "panic", error |-> "none"]

\* Option<Auth>
Auths == {None, Some([username |-> <<"u">>, password |-> <<"p">>, email |-> <<"e">>, server_address |-> None])}

\* DockerClient::unix(host, auth)
DockerClient_unix(host, auth) ==
    [state |-> "built", host |-> host, config |-> "UNIX", auth |-> auth]

\* DockerClient::stream(host, auth): strip_prefix("tcp://").unwrap()
DockerClient_stream(host, auth) ==
    IF StartsWith(host, STR_TCP_PREFIX)
    THEN [state |-> "built", host |-> SubSeq(host, Len(STR_TCP_PREFIX) + 1, Len(host)),
          config |-> "TCP", auth |-> auth]
    ELSE [NoClient EXCEPT !.state = "panic"]

\* DockerClient::make_uri(path)
make_uri(c, path) ==
    IF c.config = "TCP"
    THEN [scheme |-> "http", authority |-> c.host, path_and_query |-> path]
    ELSE [scheme |-> "unix", authority |-> c.host, path_and_query |-> path]

\* WaitCondition::to_string
WaitConditions == {<<"n", "o", "t", "-", "r", "u", "n", "n", "i", "n", "g">>, <<"n", "e", "x", "t", "-", "e", "x", "i", "t">>, <<"r", "e", "m", "o", "v", "e", "d">>}

\* the operations of DockerClient
Operations ==
    {"top", "containers_list", "create_container", "get_fs_changes", "start_container",
     "stop_container", "pause_container", "unpause_container", "rename_container",
     "kill_container", "remove_container", "inspect_container", "get_container_log",
     "wait_container", "export_container", "get_image_list", "create_volume",
     "inspect_volume", "remove_volume", "delete_unused_volumes", "get_volumes_list",
     "pull_image", "create_network", "inspect_network", "connect_container_to_network",
     "create_exec_instance", "start_exec", "inspect_exec"}

\* the operations whose path is the get_path() of the request object they are given
PathFromRequest ==
    {"top", "containers_list", "create_container", "kill_container", "remove_container",
     "inspect_container", "pull_image", "create_network", "inspect_network",
     "connect_container_to_network", "create_exec_instance"}

\* bool::to_string
bool_to_string(b) == IF b THEN <<"t", "r", "u", "e">> ELSE <<"f", "a", "l", "s", "e">>

\* the path each operation asks of the daemon: the format!(..) of the operation,
\* or the get_path() of the request object it was given (a.path)
OperationPath(op, a) ==
    CASE op \in PathFromRequest -> a.path
      [] op = "get_fs_changes" ->
            STR_CONTAINERS \o a.id \o <<"/", "c", "h", "a", "n", "g", "e", "s">>
      [] op = "start_container" ->
            STR_CONTAINERS \o a.id \o <<"/", "s", "t", "a", "r", "t">>
      [] op = "stop_container" ->
            STR_CONTAINERS \o a.id \o <<"/", "s", "t", "o", "p">>
      [] op = "pause_container" ->
            STR_CONTAINERS \o a.id \o <<"/", "p", "a", "u", "s", "e">>
      [] op = "unpause_container" ->
            STR_CONTAINERS \o a.id \o <<"/", "u", "n", "p", "a", "u", "s", "e">>
      [] op = "rename_container" ->
            STR_CONTAINERS \o a.id \o <<"/", "r", "e", "n", "a", "m", "e", "?", "n", "a", "m", "e", "=">> \o a.name
      [] op = "get_container_log" ->
            STR_CONTAINERS \o a.id \o <<"/", "l", "o", "g", "s", "?", "s", "t", "d", "o", "u", "t", "=", "t", "r", "u", "e">>
      [] op = "wait_container" ->
            STR_CONTAINERS \o a.id \o <<"/", "w", "a", "i", "t", "?", "c", "o", "n", "d", "i", "t", "i", "o", "n", "=">> \o a.condition
      [] op = "export_container" ->
            STR_CONTAINERS \o a.id \o <<"/", "e", "x", "p", "o", "r", "t">>
      [] op = "get_image_list" ->
            <<"/", "i", "m", "a", "g", "e", "s", "/", "j", "s", "o", "n">>
      [] op = "create_volume" ->
            STR_VOLUMES \o <<"/", "c", "r", "e", "a", "t", "e">>
      [] op = "inspect_volume" ->
            STR_VOLUMES \o <<"/">> \o a.id
      [] op = "remove_volume" ->
            STR_VOLUMES \o <<"/">> \o a.id \o <<"?", "f", "o", "r", "c", "e", "=">> \o bool_to_string(a.force)
      [] op = "delete_unused_volumes" ->
            STR_VOLUMES \o <<"/", "p", "r", "u", "n", "e">>
      [] op = "get_volumes_list" ->
            STR_VOLUMES
      [] op = "start_exec" ->
            STR_EXEC \o a.id \o <<"/", "s", "t", "a", "r", "t">>
      [] op = "inspect_exec" ->
            STR_EXEC \o a.id \o <<"/", "j", "s", "o", "n">>

\* Request::get / Request::post / Request::delete of each operation
OperationMethod(op) ==
    IF op \in {"top", "containers_list", "get_fs_changes", "inspect_container",
               "get_container_log", "export_container", "get_image_list", "inspect_volume",
               "get_volumes_list", "inspect_network", "inspect_exec"} THEN "GET"
    ELSE IF op \in {"remove_container", "remove_volume"} THEN "DELETE"
    ELSE "POST"

\* DockerClient::registry_auth: base64 of the JSON of self.auth.as_ref().unwrap(),
\* which aborts on a client without auth
registry_auth(c) == IF IsSome(c.auth) THEN "base64(json(auth))" ELSE "panic"

\* headers where pull_image adds X-Registry-Auth whether or not the client has auth
OperationHeaders_AlwaysAuth(c, op) ==
    IF op \in {"create_container", "create_volume", "create_network",
               "connect_container_to_network", "create_exec_instance", "start_exec"}
    THEN << <<"Content-Type", "application/json">> >>
    ELSE IF op = "pull_image"
    THEN << <<"X-Registry-Auth", registry_auth(c)>> >>
    ELSE <<>>

\* the .header(..) calls of each operation; pull_image adds X-Registry-Auth when
\* the client has auth
OperationHeaders(c, op) ==
    IF op \in {"create_container", "create_volume", "create_network",
               "connect_container_to_network", "create_exec_instance", "start_exec"}
    THEN << <<"Content-Type", "application/json">> >>
    ELSE IF op = "pull_image" /\ IsSome(c.auth)
    THEN << <<"X-Registry-Auth", registry_auth(c)>> >>
    ELSE <<>>

\* the .body(..) of each operation: empty, the JSON of the object given, or "{}"
OperationBody(op) ==
    IF op \in {"create_container", "create_volume", "create_network",
               "connect_container_to_network", "create_exec_instance"} THEN "json"
    ELSE IF op = "start_exec" THEN "{}"
    ELSE "empty"

\* the hyper::Request an operation builds from its arguments
OperationRequest(c, op, a) ==
    [method |-> OperationMethod(op),
     uri |-> make_uri(c, OperationPath(op, a)),
     headers |-> OperationHeaders(c, op),
     body |-> OperationBody(op)]

\* the `match response.status` of each operation: the statuses that give Ok, what
\* the Ok arm does with the body ("unit": nothing, "json": json::from_str(..).unwrap(),
\* "string": body_as_string(), "file": save_to_file(..)), and the error variant
\* of each other status listed; every status not listed is the `_` arm
StatusMatch(op) ==
    CASE op = "top" ->
            [ok |-> {200}, value |-> "json", err |-> (404 :> "NotFound" @@ 500 :> "ServerError")]
      [] op = "containers_list" ->
            [ok |-> {200}, value |-> "json", err |-> (400 :> "BadParameters" @@ 500 :> "ServerError")]
      [] op = "create_container" ->
            [ok |-> {201}, value |-> "json", err |-> (400 :> "BadParameters" @@ 404 :> "NotFound" @@ 409 :> "ContainerExists" @@ 500 :> "ServerError")]
      [] op = "get_fs_changes" ->
            [ok |-> {200}, value |-> "json", err |-> (404 :> "NotFound" @@ 500 :> "ServerError")]
      [] op = "start_container" ->
            [ok |-> {204, 304}, value |-> "unit", err |-> (404 :> "NotFound" @@ 500 :> "ServerError")]
      [] op = "stop_container" ->
            [ok |-> {204, 304}, value |-> "unit", err |-> (404 :> "NotFound" @@ 500 :> "ServerError")]
      [] op = "pause_container" ->
            [ok |-> {204}, value |-> "unit", err |-> (404 :> "NotFound" @@ 500 :> "ServerError")]
      [] op = "unpause_container" ->
            [ok |-> {204}, value |-> "unit", err |-> (404 :> "NotFound" @@ 500 :> "ServerError")]
      [] op = "rename_container" ->
            [ok |-> {204}, value |-> "unit", err |-> (404 :> "NotFound" @@ 409 :> "ContainerExists" @@ 500 :> "ServerError")]
      [] op = "kill_container" ->
            [ok |-> {204}, value |-> "unit", err |-> (400 :> "BadParameters" @@ 404 :> "NotFound" @@ 409 :> "NotRunning" @@ 500 :> "ServerError")]
      [] op = "remove_container" ->
            [ok |-> {204}, value |-> "unit", err |-> (400 :> "BadParameters" @@ 404 :> "NotFound" @@ 409 :> "NotRunning" @@ 500 :> "ServerError")]
      [] op = "inspect_container" ->
            [ok |-> {200}, value |-> "json", err |-> (404 :> "NotFound" @@ 500 :> "ServerError")]
      [] op = "get_container_log" ->
            [ok |-> {200}, value |-> "string", err |-> (404 :> "NotFound" @@ 500 :> "ServerError")]
      [] op = "wait_container" ->
            [ok |-> {200}, value |-> "json", err |-> (404 :> "NotFound" @@ 500 :> "ServerError")]
      [] op = "export_container" ->
            [ok |-> {200}, value |-> "file", err |-> (404 :> "NotFound" @@ 500 :> "ServerError")]
      [] op = "get_image_list" ->
            [ok |-> {200}, value |-> "json", err |-> (500 :> "ServerError")]
      [] op = "create_volume" ->
            [ok |-> {201}, value |-> "unit", err |-> (400 :> "BadParameters" @@ 500 :> "ServerError")]
      [] op = "inspect_volume" ->
            [ok |-> {200}, value |-> "json", err |-> (400 :> "BadParameters" @@ 404 :> "NotFound" @@ 500 :> "ServerError")]
      [] op = "remove_volume" ->
            [ok |-> {204}, value |-> "unit", err |-> (400 :> "BadParameters" @@ 404 :> "NotFound" @@ 409 :> "Busy" @@ 500 :> "ServerError")]
      [] op = "delete_unused_volumes" ->
            [ok |-> {200}, value |-> "json", err |-> (400 :> "BadParameters" @@ 500 :> "ServerError")]
      [] op = "get_volumes_list" ->
            [ok |-> {200}, value |-> "json", err |-> (400 :> "BadParameters" @@ 500 :> "ServerError")]
      [] op = "pull_image" ->
            [ok |-> {200}, value |-> "unit", err |-> (404 :> "NotFound" @@ 500 :> "ServerError")]
      [] op = "create_network" ->
            [ok |-> {201}, value |-> "json", err |-> (404 :> "NotFound" @@ 409 :> "NetworkExists" @@ 500 :> "ServerError")]
      [] op = "inspect_network" ->
            [ok |-> {200}, value |-> "unit", err |-> (404 :> "NotFound" @@ 500 :> "ServerError")]
      [] op = "connect_container_to_network" ->
            [ok |-> {200}, value |-> "unit", err |-> (404 :> "NotFound" @@ 500 :> "ServerError")]
      [] op = "create_exec_instance" ->
            [ok |-> {201}, value |-> "json", err |-> (404 :> "NotFound" @@ 409 :> "ContainerPaused" @@ 500 :> "ServerError")]
      [] op = "start_exec" ->
            [ok |-> {200}, value |-> "unit", err |-> (400 :> "BadParameters" @@ 404 :> "NotFound" @@ 409 :> "ContainerPaused" @@ 500 :> "ServerError")]
      [] op = "inspect_exec" ->
            [ok |-> {200}, value |-> "json", err |-> (404 :> "NotFound" @@ 500 :> "ServerError")]

\* the bodies a daemon (or whatever answers in its place) sends: the JSON object
\* {"message": ..}, a JSON document of the type the operation's Ok arm reads,
\* nothing, text that is not JSON, bytes that are not UTF-8
BodyKinds == {"message", "payload", "empty", "text", "binary"}

\* DockerResponse::body_as_string: String::from_utf8(..).unwrap()
body_as_string(body) == IF body = "binary" THEN None ELSE Some(body)

\* json::from_str::<ErrorMessage>(..): Some when the text is an object with "message"
from_str_ErrorMessage(text) == IF text = "message" THEN Some(text) ELSE None

\* json::from_str::<T>(..) for the type T of an Ok arm
from_str_Value(text) == IF text = "payload" THEN Some(text) ELSE None


\* what one client.request(..) call does: the request fails (no connection, the
\* transport breaks), or an answer with a status arrives and its body is then
\* collected (body "Err": collecting it fails)
NoDockerResponse == [status |-> 0, body |-> "none"]
RequestFailed == [request |-> "Err", status |-> 0, body |-> "Err"]
Statuses == {200, 201, 204, 304, 400, 401, 404, 409, 500, 503}
Answers == [request : {"Ok"}, status : Statuses, body : BodyKinds \cup {"Err"}]

\* what a further client.request(..) call would do, were one made
LaterAnswers ==
    {RequestFailed,
     [request |-> "Ok", status |-> 204, body |-> "empty"],
     [request |-> "Ok", status |-> 500, body |-> "message"]}
Transports ==
    {<<first>> : first \in Answers \cup {RequestFailed}}
    \cup {<<first, later>> : first \in Answers \cup {RequestFailed}, later \in LaterAnswers}

execute_async_Retry(attempts) ==
    LET failed == {n \in 1..Len(attempts) : attempts[n].request = "Err"}
        n == IF failed = 1..Len(attempts) THEN Len(attempts)
             ELSE CHOOSE k \in 1..Len(attempts) : k \notin failed /\ (1..(k - 1)) \subseteq failed
    IN  IF attempts[n].request = "Err"
        THEN [result |-> Err("ClosedConnection"), response |-> NoDockerResponse, requests |-> n]
        ELSE IF attempts[n].body = "Err"
        THEN [result |-> Panic, response |-> NoDockerResponse, requests |-> n]
        ELSE [result |-> Ok, requests |-> n,
              response |-> [status |-> attempts[n].status, body |-> attempts[n].body]]

\* DockerClient::execute_async: one client.request(..); Err gives ClosedConnection,
\* Ok gives the status and the collected body (to_bytes(..).await.unwrap())
execute_async(attempts) ==
    IF attempts[1].request = "Err"
    THEN [result |-> Err("ClosedConnection"), response |-> NoDockerResponse, requests |-> 1]
    ELSE IF attempts[1].body = "Err"
    THEN [result |-> Panic, response |-> NoDockerResponse, requests |-> 1]
    ELSE [result |-> Ok, requests |-> 1,
          response |-> [status |-> attempts[1].status, body |-> attempts[1].body]]

\* one `match response.status { .. }`, m being the arms of the operation
MatchArms(m, response, file_ok) ==
    IF response.status \in m.ok
    THEN CASE m.value = "unit" -> Ok
           [] m.value = "json" ->
                  IF body_as_string(response.body) = None THEN Panic
                  ELSE IF from_str_Value(Unwrap(body_as_string(response.body))) = None THEN Panic
                  ELSE Ok
           [] m.value = "string" ->
                  IF body_as_string(response.body) = None THEN Panic ELSE Ok
           [] m.value = "file" ->
                  IF file_ok THEN Ok ELSE Err("UnknownStatus")
    ELSE IF response.status \in DOMAIN m.err
    THEN IF body_as_string(response.body) = None THEN Panic
         ELSE IF from_str_ErrorMessage(Unwrap(body_as_string(response.body))) = None THEN Panic
         ELSE Err(m.err[response.status])
    ELSE Err("UnknownStatus")

MatchStatus_BadParametersOn401(op, response, file_ok) ==
    LET m == StatusMatch(op)
        moved == [m EXCEPT !.err = [s \in ((DOMAIN m.err) \ {400}) \cup
                                         (IF 400 \in DOMAIN m.err THEN {401} ELSE {}) |->
                                        IF s = 401 THEN m.err[400] ELSE m.err[s]]]
    IN  MatchArms(moved, response, file_ok)

\* the closure given to and_then by each operation
MatchStatus(op, response, file_ok) == MatchArms(StatusMatch(op), response, file_ok)


\* the arguments the operations are called with
UnixHosts == {<<"/", "s">>}
TcpHosts == {<<"t", "c", "p", ":", "/", "/", "h">>, <<"h">>}
Ids == {<<"c">>}
Names == {<<"n">>}
Waits == {None, Some(0), Some(12)}
RequestPaths == {<<"/", "p">>}
OperationArgs(op) ==
    [id : IF op \in PathFromRequest \cup {"get_image_list", "create_volume",
                                         "delete_unused_volumes", "get_volumes_list"}
          THEN {<<>>} ELSE Ids,
     wait : IF op = "stop_container" THEN Waits ELSE {None},
     force : IF op = "remove_volume" THEN BOOLEAN ELSE {FALSE},
     name : IF op = "rename_container" THEN Names ELSE {<<>>},
     condition : IF op = "wait_container" THEN WaitConditions ELSE {<<>>},
     path : IF op \in PathFromRequest THEN RequestPaths ELSE {<<>>}]

\* DockerClient::unix(host, auth)
ClientUnix ==
    /\ client.state = "none"
    /\ \E host \in UnixHosts, auth \in Auths : client' = DockerClient_unix(host, auth)
    /\ UNCHANGED <<builderVars, call, sendVars>>

\* DockerClient::stream(host, auth)
ClientStream ==
    /\ client.state = "none"
    /\ \E host \in TcpHosts, auth \in Auths : client' = DockerClient_stream(host, auth)
    /\ UNCHANGED <<builderVars, call, sendVars>>

\* one operation of the client, from its call to its return: it builds its
\* request, awaits execute_async and hands the response to its status match
\* (and_then: an Err of execute_async is returned as it is)
ClientOperation ==
    /\ client.state = "built" /\ call = NoCall
    /\ \E op \in Operations :
       \E a \in OperationArgs(op), attempts \in Transports,
          file_ok \in (IF op = "export_container" THEN BOOLEAN ELSE {TRUE}) :
           LET exec == execute_async(attempts)
           IN  call' = [op |-> op, id |-> a.id, wait |-> a.wait, force |-> a.force,
                        name |-> a.name, condition |-> a.condition, path |-> a.path,
                        request |-> OperationRequest(client, op, a),
                        attempts |-> attempts,
                        requests |-> exec.requests,
                        file_ok |-> file_ok,
                        result |-> IF exec.result.kind = "Ok"
                                   THEN MatchStatus(op, exec.response, file_ok)
                                   ELSE exec.result]
    /\ UNCHANGED <<builderVars, client, sendVars>>

\* the DockerClient: a client is built, then an operation is called on it
InitClient == InitReq
NextClient ==
    \/ ClientUnix
    \/ ClientStream
    \/ ClientOperation
SpecClient == InitClient /\ [][NextClient]_vars


----------------------------------------------------------------------------
(* The request objects: src/src/container/remove.rs, kill.rs, list/request.rs,
   list/filters.rs, src/src/networks/inspect/request.rs; the remove_container
   of src/src/client.rs and of src/src/client/client.rs *)

STR_NETWORKS == <<"/", "n", "e", "t", "w", "o", "r", "k", "s", "/">>
STR_CONTAINERS_JSON == <<"/", "c", "o", "n", "t", "a", "i", "n", "e", "r", "s", "/", "j", "s", "o", "n">>
STR_PERCENT_22 == <<"%", "2", "2">>

\* Option<bool>
OptionBool == {None, Some(FALSE), Some(TRUE)}

\* impl ToRequest for Remover: the request it builds
Remover_to_request(r) ==
    LET url == STR_CONTAINERS \o r.id
        uri0 == URI_with_path(url)
        uri1 == IF IsSome(r.v)
                THEN URIBuilder_parameter(uri0, <<"v">>, bool_to_string(Unwrap(r.v)))
                ELSE uri0
        uri2 == IF IsSome(r.force)
                THEN URIBuilder_parameter(uri1, <<"f", "o", "r", "c", "e">>, bool_to_string(Unwrap(r.force)))
                ELSE uri1
        uri3 == IF IsSome(r.link)
                THEN URIBuilder_parameter(uri2, <<"l", "i", "n", "k">>, bool_to_string(Unwrap(r.link)))
                ELSE uri2
    IN  RequestBuilder_build(
            RequestBuilder_url(RequestBuilder_with_method("DELETE"), URIBuilder_build(uri3)))

\* the two DockerClient::remove_container: the file each is in
RemoveContainerImpls == {"src/client.rs", "src/client/client.rs"}

\* Request::post(uri) in src/client.rs, Request::delete(uri) in src/client/client.rs
remove_container_method(impl) ==
    IF impl = "src/client.rs" THEN "POST" ELSE OperationMethod("remove_container")

\* Killer::get_path
Killer_get_path(k) ==
    LET path == STR_CONTAINERS \o k.id \o <<"/", "k", "i", "l", "l", "?">>
    IN  Pop(IF IsSome(k.signal)
            THEN path \o <<"s", "i", "g", "n", "a", "l", "=">> \o Unwrap(k.signal) \o <<"&">>
            ELSE path)

\* networks::inspect::Request::get_path
NetworkInspect_get_path(r) ==
    LET path0 == STR_NETWORKS \o r.id \o <<"?">>
        path1 == IF r.verbose
                 THEN path0 \o <<"v", "e", "r", "b", "o", "s", "e", "=", "t", "r", "u", "e", "&">>
                 ELSE path0
    IN  IF r.scope # <<>>
        THEN path1 \o <<"s", "c", "o", "p", "e", "=">> \o r.scope
        ELSE path1

\* serialize_label: the elements of the JSON array, in iteration order
RECURSIVE SerializeLabel(_, _)
SerializeLabel(label, order) ==
    IF order = <<>>
    THEN <<>>
    ELSE LET key == order[1]
             element == IF IsSome(label[key])
                        THEN <<"\"">> \o key \o <<"=">> \o Unwrap(label[key]) \o <<"\"">>
                        ELSE <<"\"">> \o key \o <<"\"">>
         IN  element \o (IF Len(order) > 1 THEN <<",">> ELSE <<>>)
                     \o SerializeLabel(label, Tail(order))

\* serde_json::to_string(&filters)
Filters_to_string(f, order) ==
    <<"{", "\"", "l", "a", "b", "e", "l", "\"", ":", "[">> \o SerializeLabel(f.label, order) \o <<"]", "}">>

\* container::list::Request::percent_encoded
RECURSIVE percent_encoded(_)
percent_encoded(value) ==
    IF value = <<>>
    THEN <<>>
    ELSE (IF Head(value) = "\"" THEN STR_PERCENT_22 ELSE <<Head(value)>>)
             \o percent_encoded(Tail(value))

\* format!("{}", n) of an i32
DisplayI32(n) == IF n < 0 THEN <<"-">> \o Display(0 - n) ELSE Display(n)

\* container::list::Request::get_path
ContainerList_get_path(r, order) ==
    LET path0 == STR_CONTAINERS_JSON \o <<"?">>
        path1 == IF IsSome(r.all)
                 THEN path0 \o <<"a", "l", "l", "=">> \o bool_to_string(Unwrap(r.all)) \o <<"&">>
                 ELSE path0
        path2 == IF IsSome(r.limit)
                 THEN path1 \o <<"l", "i", "m", "i", "t", "=">> \o DisplayI32(Unwrap(r.limit)) \o <<"&">>
                 ELSE path1
        path3 == IF IsSome(r.size)
                 THEN path2 \o <<"s", "i", "z", "e", "=">> \o bool_to_string(Unwrap(r.size)) \o <<"&">>
                 ELSE path2
        path4 == IF DOMAIN r.filters.label # {}
                 THEN path3 \o <<"f", "i", "l", "t", "e", "r", "s", "=">>
                            \o percent_encoded(Filters_to_string(r.filters, order)) \o <<"&">>
                 ELSE path3
    IN  Pop(path4)

STR_UNIX_PREFIX == <<"u", "n", "i", "x", ":", "/", "/">>
STR_DEFAULT_SOCKET == <<"/", "v", "a", "r", "/", "r", "u", "n", "/", "d", "o", "c", "k", "e", "r", ".", "s", "o", "c", "k">>
STR_DEFAULT_TCP == <<"t", "c", "p", ":", "/", "/", "l", "o", "c", "a", "l", "h", "o", "s", "t", ":", "2", "3", "7", "5">>

\* DockerClient::new: docker_host is env::var("DOCKER_HOST").ok(), unix_socket
\* is whether the build has the feature "unix-socket"
DockerClient_new(docker_host, unix_socket) ==
    IF IsSome(docker_host)
    THEN IF unix_socket /\ StartsWith(Unwrap(docker_host), STR_UNIX_PREFIX)
         THEN DockerClient_unix(SubSeq(Unwrap(docker_host), Len(STR_UNIX_PREFIX) + 1,
                                       Len(Unwrap(docker_host))), None)
         ELSE DockerClient_stream(Unwrap(docker_host), None)
    ELSE IF unix_socket
         THEN DockerClient_unix(STR_DEFAULT_SOCKET, None)
         ELSE DockerClient_stream(STR_DEFAULT_TCP, None)

\* DockerClient::with_auth(auth): Self::new(), then ctx.auth = Some(auth)
DockerClient_with_auth(docker_host, unix_socket, auth) ==
    LET ctx == DockerClient_new(docker_host, unix_socket)
    IN  IF ctx.state = "built" THEN [ctx EXCEPT !.auth = Some(auth)] ELSE ctx

\* the arguments of one call on a request object or of one constructor of the
\* client; the call records what was called (op, impl), its arguments (args) and
\* the method and path it gave
NoArgs ==
    [id |-> <<>>, v |-> None, force |-> None, link |-> None, signal |-> None,
     verbose |-> FALSE, scope |-> <<>>, all |-> None, limit |-> None, size |-> None,
     filters |-> [label |-> EmptyMap], docker_host |-> None, unix_socket |-> FALSE]

\* the request objects the builders can give
Signals == {None, Some(<<"K">>)}
NetworkIds == {<<>>, <<"n">>}
Limits == {None, Some(0), Some(12), Some(0 - 1)}
Labels == {EmptyMap, Insert(EmptyMap, <<"k">>, None), Insert(EmptyMap, <<"k">>, Some(<<"x">>)),
           Insert(Insert(EmptyMap, <<"k">>, None), <<"m">>, Some(<<"x">>))}
DockerHosts == {None, Some(<<"u", "n", "i", "x", ":", "/", "/", "/", "s">>),
                Some(<<"t", "c", "p", ":", "/", "/", "h">>), Some(<<"h">>)}
Removers ==
    {[NoArgs EXCEPT !.id = id, !.v = v, !.force = force, !.link = link] :
        id \in Ids, v \in OptionBool, force \in OptionBool, link \in OptionBool}
Killers == {[NoArgs EXCEPT !.id = id, !.signal = signal] : id \in Ids, signal \in Signals}
\* RequestBuilder::with_name(id).build() or Request::new().build(): no method of
\* the builder sets verbose or scope
NetworkInspects == {[NoArgs EXCEPT !.id = id] : id \in NetworkIds}
ContainerLists ==
    {[NoArgs EXCEPT !.all = all, !.limit = limit, !.size = size, !.filters = [label |-> label]] :
        all \in OptionBool, limit \in Limits, size \in OptionBool, label \in Labels}

\* remover.to_request(), then the path its URI renders
RemoverToRequest ==
    /\ call.op = "none"
    /\ \E r \in Removers :
       LET request == Remover_to_request(r)
       IN  \E order \in IterOrders(request.url.params) :
               call' = [op |-> "Remover::to_request", impl |-> "src/container/remove.rs",
                        args |-> r, method |-> request.method,
                        path |-> URI_to_string(request.url, order)]
    /\ UNCHANGED <<builderVars, client, sendVars>>

\* client.remove_container(remover): its request has the method of the
\* implementation and the path remover.get_path() returns
RemoveContainer ==
    /\ call.op = "none"
    /\ \E impl \in RemoveContainerImpls, r \in Removers, path \in RequestPaths :
           call' = [op |-> "remove_container", impl |-> impl, args |-> r,
                    method |-> remove_container_method(impl), path |-> path]
    /\ UNCHANGED <<builderVars, client, sendVars>>

\* killer.get_path()
KillerGetPath ==
    /\ call.op = "none"
    /\ \E k \in Killers :
           call' = [op |-> "Killer::get_path", impl |-> "src/container/kill.rs",
                    args |-> k, method |-> "none", path |-> Killer_get_path(k)]
    /\ UNCHANGED <<builderVars, client, sendVars>>

\* networks::inspect::Request::get_path()
NetworkInspectGetPath ==
    /\ call.op = "none"
    /\ \E r \in NetworkInspects :
           call' = [op |-> "networks::inspect::Request::get_path",
                    impl |-> "src/networks/inspect/request.rs",
                    args |-> r, method |-> "none", path |-> NetworkInspect_get_path(r)]
    /\ UNCHANGED <<builderVars, client, sendVars>>

\* container::list::Request::get_path()
ContainerListGetPath ==
    /\ call.op = "none"
    /\ \E r \in ContainerLists : \E order \in IterOrders(r.filters.label) :
           call' = [op |-> "container::list::Request::get_path",
                    impl |-> "src/container/list/request.rs",
                    args |-> r, method |-> "none", path |-> ContainerList_get_path(r, order)]
    /\ UNCHANGED <<builderVars, client, sendVars>>

\* DockerClient::new()
ClientNew ==
    /\ call.op = "none" /\ client.state = "none"
    /\ \E docker_host \in DockerHosts, unix_socket \in BOOLEAN :
           /\ client' = DockerClient_new(docker_host, unix_socket)
           /\ call' = [op |-> "DockerClient::new", impl |-> "src/client/client.rs",
                       args |-> [NoArgs EXCEPT !.docker_host = docker_host,
                                               !.unix_socket = unix_socket],
                       method |-> "none", path |-> <<>>]
    /\ UNCHANGED <<builderVars, sendVars>>

\* DockerClient::with_auth(auth)
ClientWithAuth ==
    /\ call.op = "none" /\ client.state = "none"
    /\ \E docker_host \in DockerHosts, unix_socket \in BOOLEAN, auth \in Auths \ {None} :
           /\ client' = DockerClient_with_auth(docker_host, unix_socket, Unwrap(auth))
           /\ call' = [op |-> "DockerClient::with_auth", impl |-> "src/client/client.rs",
                       args |-> [NoArgs EXCEPT !.docker_host = docker_host,
                                               !.unix_socket = unix_socket],
                       method |-> "none", path |-> <<>>]
    /\ UNCHANGED <<builderVars, sendVars>>

\* the request objects, the constructors of the client and the URI builder:
\* one call on a request object or one constructor, beside the builder calls
NextObjects ==
    \/ URINew
    \/ URIWithPath
    \/ URIBuilderUrl
    \/ URIBuilderParameter
    \/ URIBuilderBuild
    \/ URIToString
    \/ RemoverToRequest
    \/ RemoveContainer
    \/ KillerGetPath
    \/ NetworkInspectGetPath
    \/ ContainerListGetPath
    \/ ClientNew
    \/ ClientWithAuth

SpecObjects == InitReq /\ [][NextObjects]_vars

----------------------------------------------------------------------------
(* What the claims speak of *)

\* the header block of the peer's message is within the bytes of the first read
HeaderBlockInFirstRead == io.reads >= 1 /\ Len(io.first) >= Len(HeaderBlock(peer))

\* the bytes of the first read that follow the header block
FirstReadBody == SubSeq(io.first, Len(HeaderBlock(peer)) + 1, Len(io.first))

\* the header lines of a rendered request: the lines between the request line
\* and the first blank line
HeaderLines(text) == Tail(Split(Split(text, BLANK_LINE)[1], CRLF))

\* the header lines of a rendered request that carry the header called name
LinesNamed(text, name) ==
    SelectSeq(HeaderLines(text), LAMBDA line : StartsWith(line, name \o <<":">>))

\* keys and values joined as key=value pairs with one & between two pairs
RECURSIVE JoinPairs(_, _)
JoinPairs(params, order) ==
    IF order = <<>> THEN <<>>
    ELSE IF Len(order) = 1 THEN order[1] \o <<"=">> \o params[order[1]]
    ELSE order[1] \o <<"=">> \o params[order[1]] \o <<"&">> \o JoinPairs(params, Tail(order))

----------------------------------------------------------------------------
(* C1: a non-204 response whose header block, with Content-Length: n, is in the
   first read and whose n body bytes arrive over any further reads is returned
   with the body the peer sent, content_length = n and the status the peer sent. *)
C1_Case ==
    /\ peer.status \notin {204, -1}
    /\ peer.length_header = "Content-Length"
    /\ peer.declared = Len(peer.body)
    /\ HeaderBlockInFirstRead
    /\ io.read_errs = 0

C1_ReadReassemblesBody ==
    (C1_Case /\ pc \in {"returned", "panic"}) =>
        /\ pc = "returned"
        /\ resp = [status |-> peer.status, body |-> peer.body,
                   content_length |-> peer.declared]

----------------------------------------------------------------------------
(* C2, as claimed: when the decoded status is 204, read returns with no read after
   the first one and with an empty body, whatever Content-Length says. *)
C2_NoBodyIsEmpty ==
    (pc = "returned" /\ resp.status = 204) => (io.reads = 1 /\ resp.body = <<>>)

(* C2, amended: when the decoded status is 204, read returns with no read after
   the first one, and the body is what the first read held after the blank
   line (empty when it held nothing), whatever Content-Length says. *)
C2_NoBodyShortCircuit ==
    (pc \in {"body", "returned"} /\ resp.status = 204) =>
        /\ pc = "returned"
        /\ io.reads = 1
        /\ resp.body = FirstReadBody

C2_Witness ==
    /\ pc = "returned" /\ resp.status = 204
    /\ resp.content_length > Len(resp.body)
    /\ stream.todo = <<>>

----------------------------------------------------------------------------
(* C7: a first read without a blank line, or with a status line that cannot be
   parsed, ends the decode with a typed framing error; the process is not
   aborted. *)
C7_FramingErrorIsTyped ==
    ( /\ io.reads >= 1 /\ io.read_errs = 0
      /\ \/ ~Contains(io.first, BLANK_LINE)
         \/ (HeaderBlockInFirstRead /\ peer.status = -1) )
    => pc = "framing_error"

----------------------------------------------------------------------------
(* C8: a response returned with a status other than 204 holds exactly
   content_length body bytes, the ones the peer sent first. *)
C8_BodyIsContentLengthBytes ==
    (pc = "returned" /\ resp.status # 204 /\ peer.length_header = "Content-Length") =>
        /\ Len(resp.body) = resp.content_length
        /\ resp.content_length <= Len(peer.body)
        /\ resp.body = SubSeq(peer.body, 1, resp.content_length)

----------------------------------------------------------------------------
(* C9: send writes the full rendered request once, then decodes once: no read
   before the write is through, and never a second write. *)
C9_OneWriteThenOneDecode ==
    /\ io.writes <= 1
    /\ io.decodes <= 1
    /\ (io.reads > 0 \/ io.decodes > 0 \/ pc \in {"read", "body", "returned"}) =>
           /\ io.writes = 1
           /\ io.decodes = 1
           /\ \E horder \in IterOrders(Unwrap(req).headers),
                 porder \in IterOrders(Unwrap(req).url.params) :
                  stream.written = Request_to_string(Unwrap(req), horder, porder)
    /\ io.writes = 0 => stream.written = <<>>

C9_Witness == pc = "returned" /\ io.reads >= 2 /\ io.writes = 1

----------------------------------------------------------------------------
(* C10: when the peer closes before Content-Length body bytes were delivered,
   the decode ends (with a typed I/O error): it is not in its loop any more once
   a read has returned 0 bytes. *)
C10_TruncatedBodyEnds ==
    (io.eof_reads >= 1 /\ current_len < resp.content_length) => pc # "body"

----------------------------------------------------------------------------
(* C3: a rendered POST request with a body of n bytes has exactly one
   Content-Length header, of value n, and exactly one Content-Type header,
   application/json, whatever headers the caller added. *)
C3_OneLengthOneType ==
    (IsSome(rendered) /\ Unwrap(req).method = "POST" /\ Len(Unwrap(req).content) > 0) =>
        /\ LinesNamed(Unwrap(rendered), STR_CONTENT_LENGTH) =
               << STR_CONTENT_LENGTH \o STR_COLON_SP \o Display(Len(Unwrap(req).content)) >>
        /\ LinesNamed(Unwrap(rendered), STR_CONTENT_TYPE) =
               << STR_CONTENT_TYPE \o STR_COLON_SP \o STR_APPLICATION_JSON >>

----------------------------------------------------------------------------
(* C4, as claimed: a rendered GET request with an empty body has no
   Content-Length header and no Content-Type header. *)
C4_NoLengthNoType ==
    (IsSome(rendered) /\ Unwrap(req).method = "GET" /\ Unwrap(req).content = <<>>) =>
        /\ LinesNamed(Unwrap(rendered), STR_CONTENT_LENGTH) = <<>>
        /\ LinesNamed(Unwrap(rendered), STR_CONTENT_TYPE) = <<>>

\* the lines of the header called name that the caller's header() calls account for
CallerLines(r, name) ==
    IF name \in DOMAIN r.headers THEN << name \o STR_COLON_SP \o r.headers[name] >> ELSE <<>>

(* C4, amended: a rendered GET request with an empty body has no Content-Length
   header and no Content-Type header but the ones the caller added with
   header(), each once and with the caller's value. *)
C4_OnlyCallerLengthAndType ==
    (IsSome(rendered) /\ Unwrap(req).method = "GET" /\ Unwrap(req).content = <<>>) =>
        /\ LinesNamed(Unwrap(rendered), STR_CONTENT_LENGTH) =
               CallerLines(Unwrap(req), STR_CONTENT_LENGTH)
        /\ LinesNamed(Unwrap(rendered), STR_CONTENT_TYPE) =
               CallerLines(Unwrap(req), STR_CONTENT_TYPE)

C4_Witness ==
    /\ IsSome(rendered) /\ Unwrap(req).method = "GET" /\ Unwrap(req).content = <<>>
    /\ DOMAIN Unwrap(req).headers = {STR_HOST}
    /\ DOMAIN Unwrap(req).url.params # {}

----------------------------------------------------------------------------
(* C6: a URI with path p and a non-empty parameter map renders as p, '?', and
   every parameter once as key=value, the pairs joined by single '&', none
   leading or trailing, in some order. *)
C6_QueryIsJoinedPairs ==
    (IsSome(uri_str) /\ DOMAIN Unwrap(uri).params # {}) =>
        \E order \in IterOrders(Unwrap(uri).params) :
            Unwrap(uri_str) =
                Unwrap(uri).url \o <<"?">> \o JoinPairs(Unwrap(uri).params, order)

C6_Witness ==
    /\ IsSome(uri_str)
    /\ Cardinality(DOMAIN Unwrap(uri).params) = 3
    /\ Unwrap(uri).url = STR_PATH

----------------------------------------------------------------------------
(* C5: rendering a request and parsing the result with a conforming HTTP/1.1
   parser, the body framed by Content-Length, gives back the method, the path
   and query, the headers as a set and the body of the request. *)

\* a header line as the pair of its name and its value
HeaderPair(line) ==
    LET i == Find(line, STR_COLON_SP)
    IN  IF i = 0 THEN <<line, <<>>>>
        ELSE <<SubSeq(line, 1, i - 1), SubSeq(line, i + 2, Len(line))>>

\* a key=value pair of a query as the pair of its key and its value
QueryPair(pair) ==
    LET i == Find(pair, <<"=">>)
    IN  IF i = 0 THEN <<pair, <<>>>>
        ELSE <<SubSeq(pair, 1, i - 1), SubSeq(pair, i + 1, Len(pair))>>

\* what an HTTP/1.1 parser reads from the bytes of one request: the request line
\* up to the first CRLF, header lines up to the first blank line, and a body of
\* as many bytes as the Content-Length headers say (none: no body; two that
\* differ: the message is refused; fewer bytes than declared: incomplete)
ParseRequest(text) ==
    LET head == Split(text, BLANK_LINE)[1]
        rest == SubSeq(text, Len(head) + Len(BLANK_LINE) + 1, Len(text))
        lines == Split(head, CRLF)
        words == Split(lines[1], <<" ">>)
        target == Split(words[2], <<"?">>)
        query == IF Len(target) < 2 \/ target[2] = <<>> THEN <<>> ELSE Split(target[2], <<"&">>)
        headers == {HeaderPair(lines[i]) : i \in 2..Len(lines)}
        lengths == {h[2] : h \in {x \in headers : x[1] = STR_CONTENT_LENGTH}}
        n == IF lengths = {} THEN 0
             ELSE IF Cardinality(lengths) > 1 THEN -1
             ELSE LET v == Parse(CHOOSE l \in lengths : TRUE)
                  IN  IF IsSome(v) THEN Unwrap(v) ELSE -1
    IN  [ method |-> words[1],
          path |-> target[1],
          params |-> {QueryPair(query[i]) : i \in 1..Len(query)},
          headers |-> headers,
          framed |-> n >= 0 /\ n <= Len(rest),
          body |-> IF n >= 0 /\ n <= Len(rest) THEN SubSeq(rest, 1, n) ELSE <<>>,
          trailing |-> IF n >= 0 /\ n <= Len(rest) THEN SubSeq(rest, n + 1, Len(rest)) ELSE rest ]

\* the headers to_string adds by itself to those of the caller
AddedHeaders(r) ==
    {<<STR_HOST, <<"1", "2", "7", ".", "0", ".", "0", ".", "1">>>>}
    \cup ( IF r.method = "POST" /\ Len(r.content) > 0
           THEN { <<STR_CONTENT_LENGTH, Display(Len(r.content))>>,
                  <<STR_CONTENT_TYPE, STR_APPLICATION_JSON>> }
           ELSE {} )

C5_RoundTrip ==
    IsSome(rendered) =>
        LET r == Unwrap(req)
            parsed == ParseRequest(Unwrap(rendered))
        IN  /\ parsed.method = MethodName(r.method)
            /\ parsed.path = r.url.url
            /\ parsed.params = {<<k, r.url.params[k]>> : k \in DOMAIN r.url.params}
            /\ {<<k, r.headers[k]>> : k \in DOMAIN r.headers} \subseteq parsed.headers
            /\ parsed.headers \subseteq
                   {<<k, r.headers[k]>> : k \in DOMAIN r.headers} \cup AddedHeaders(r)
            /\ parsed.framed
            /\ parsed.body = r.content

----------------------------------------------------------------------------
(* C11: when write_all fails, send gives its caller a send failure and issues no
   read on the stream; the process is not aborted. *)
C11_WriteErrorIsReturned ==
    (io.writes >= 1 /\ io.decodes = 0) => (pc # "panic" /\ io.reads = 0)

----------------------------------------------------------------------------
(* C13: after any sequence of parameter calls the built URI holds each key once,
   with the value of the latest call made for that key, and its rendering holds
   for each key one pair, the one with that value. *)

\* the key=value pairs of a rendered URI, in the order they are written
RenderedPairs(text) ==
    LET parts == Split(text, <<"?">>)
        query == IF Len(parts) < 2 \/ parts[2] = <<>> THEN <<>> ELSE Split(parts[2], <<"&">>)
    IN  [i \in 1..Len(query) |-> QueryPair(query[i])]

C13_ParameterOverwritesByKey ==
    /\ IsSome(uri) => Unwrap(uri).params = params_log.last
    /\ IsSome(uri_str) =>
           LET pairs == RenderedPairs(Unwrap(uri_str))
           IN  /\ Len(pairs) = Cardinality(DOMAIN params_log.last)
               /\ \A k \in DOMAIN params_log.last :
                      \E i \in 1..Len(pairs) : pairs[i] = <<k, params_log.last[k]>>
               /\ \A i \in 1..Len(pairs) :
                      /\ pairs[i][1] \in DOMAIN params_log.last
                      /\ pairs[i][2] = params_log.last[pairs[i][1]]

C13_Witness ==
    /\ IsSome(uri_str)
    /\ params_log.replaced
    /\ Cardinality(DOMAIN Unwrap(uri).params) >= 2

----------------------------------------------------------------------------
(* C14: a rendered GET or DELETE request carries no body, whatever builder calls
   were made, content(...) included: nothing follows the blank line that ends
   the headers. *)
C14_NoBodyOnGetAndDelete ==
    (IsSome(rendered) /\ Unwrap(req).method \in {"GET", "DELETE"}) =>
        LET text == Unwrap(rendered)
            head == Split(text, BLANK_LINE)[1]
        IN  Len(text) = Len(head) + Len(BLANK_LINE)

----------------------------------------------------------------------------
(* C19: when the body part of the first read holds a further blank line, the
   decoder still splits at the first one only: the headers are what is left of
   it, the body what is right of it, and the decode goes on. *)
C19_SplitsAtFirstBlankLineOnly ==
    ( /\ io.reads >= 1 /\ io.read_errs = 0
      /\ HeaderBlockInFirstRead
      /\ peer.status # -1
      /\ Contains(FirstReadBody, BLANK_LINE) )
    => /\ pc # "panic"
       /\ resp.status = peer.status
       /\ SubSeq(resp.body, 1, Len(FirstReadBody)) = FirstReadBody

----------------------------------------------------------------------------
(* C20: a body chunk that is not valid UTF-8 on its own (a multi-byte character
   cut by a read boundary) is appended with the invalid bytes replaced, and the
   decode goes on to its end instead of failing. *)
C20_InvalidChunkIsReplaced ==
    (io.reads >= 2 /\ io.read_errs = 0) => pc # "panic"

----------------------------------------------------------------------------
\* the operation was called and the daemon answered it: the request did not
\* fail and the body was collected
Answered ==
    /\ call.op # "none"
    /\ call.attempts[1].request = "Ok"
    /\ call.attempts[1].body # "Err"

\* the status of the answer
AnsweredStatus == call.attempts[1].status

(* C12: when client.request(..) fails, the operation returns
   Err(DockerError::ClosedConnection) after that one request: no further request
   is made, and no answer (not even one a further request would get) reaches a
   status match. *)
C12_RequestErrorIsClosedConnection ==
    (call.op # "none" /\ call.attempts[1].request = "Err") =>
        /\ call.result = Err("ClosedConnection")
        /\ call.requests = 1

C12_Witness ==
    /\ call.op # "none"
    /\ call.attempts[1].request = "Err"
    /\ Len(call.attempts) = 2
    /\ call.attempts[2].request = "Ok"
    /\ call.result = Err("ClosedConnection")

----------------------------------------------------------------------------
(* C16 as written: an answer with status 401 gives DockerError::BadParameters. *)
C16_BadParametersOn401 ==
    (Answered /\ AnsweredStatus = 401) => call.result = Err("BadParameters")

(* C16: DockerError::BadParameters is returned only for an answer with status
   400; an answer with status 401 gives DockerError::UnknownStatus, whatever the
   operation. *)
C16_BadParametersOn400 ==
    /\ call.result = Err("BadParameters") => (Answered /\ AnsweredStatus = 400)
    /\ (Answered /\ AnsweredStatus = 401) => call.result = Err("UnknownStatus")

C16_Witness ==
    /\ Answered
    /\ AnsweredStatus = 400
    /\ call.op = "kill_container"
    /\ call.result = Err("BadParameters")

----------------------------------------------------------------------------
(* C17: the request stop_container(id, Some(wait)) sends carries the wait value:
   the number is written in the request's path and query. *)
C17_StopRequestCarriesWait ==
    (call.op = "stop_container" /\ IsSome(call.wait)) =>
        Contains(call.request.uri.path_and_query, Display(Unwrap(call.wait)))

----------------------------------------------------------------------------
(* C18: the status of the answer decides the result of every operation: a
   success status gives Ok, a status the match lists gives the error variant
   listed for it, any other status gives Err(DockerError::UnknownStatus). *)
C18_StatusDecidesResult ==
    Answered =>
        LET m == StatusMatch(call.op)
        IN  IF AnsweredStatus \in m.ok THEN call.result = Ok
            ELSE IF AnsweredStatus \in DOMAIN m.err
            THEN call.result = Err(m.err[AnsweredStatus])
            ELSE call.result = Err("UnknownStatus")

----------------------------------------------------------------------------
(* C21: when the peer sends no header line with the exact text 'Content-Length:'
   (no length header, or 'content-length: n'), no read after the first is
   issued, and the response returned has content_length 0 and, as its body, what
   the first read carried after the blank line. *)
C21_NoExactHeaderMeansZero ==
    (io.reads >= 1 /\ peer.length_header # "Content-Length") =>
        /\ io.reads = 1
        /\ pc \in {"returned", "panic"}
        /\ pc = "returned" =>
               /\ resp.content_length = 0
               /\ HeaderBlockInFirstRead
               /\ resp.body = FirstReadBody

C21_Witness ==
    /\ pc = "returned"
    /\ peer.length_header = "content-length"
    /\ peer.status = 200
    /\ peer.declared = 2
    /\ resp.content_length = 0
    /\ Len(resp.body) < Len(peer.body)

----------------------------------------------------------------------------
(* C22: when the header block (with a status line that can be read) arrives in
   the first read and the peer delivers at least Content-Length body bytes, all
   in non-empty reads, Response::read does not abort, it has returned once the
   bytes the peer sent are read, and it has issued no more reads than the peer
   sent pieces. *)
C22_Case ==
    /\ io.reads >= 1 /\ io.read_errs = 0 /\ io.eof_reads = 0
    /\ HeaderBlockInFirstRead
    /\ peer.status # -1
    /\ Len(peer.body) >= peer.declared

C22_ReadTerminates ==
    C22_Case =>
        /\ pc # "panic"
        /\ (stream.todo = <<>> /\ stream.rcv = <<>>) => pc = "returned"
        /\ io.reads <= Len(Pieces(peer)) - Len(stream.todo)

----------------------------------------------------------------------------
(* C23: every rendered request has exactly one Host header line, which reads
   'Host: 127.0.0.1'; it follows all the header lines the caller added (a Host
   of the caller's included) and comes before Content-Length, which comes before
   Content-Type. *)
C23_OneHostLineInOrder ==
    IsSome(rendered) =>
        LET lines == HeaderLines(Unwrap(rendered))
            n == Cardinality(DOMAIN Unwrap(req).headers)
        IN  /\ LinesNamed(Unwrap(rendered), STR_HOST) = <<STR_HOST_LINE>>
            /\ Len(lines) \in {n + 1, n + 3}
            /\ lines[n + 1] = STR_HOST_LINE
            /\ Len(lines) = n + 3 =>
                   /\ StartsWith(lines[n + 2], STR_CONTENT_LENGTH_COLON)
                   /\ StartsWith(lines[n + 3], STR_CONTENT_TYPE \o <<":">>)

----------------------------------------------------------------------------
(* C24: build() leaves its builder as it was and returns a copy of what the
   builder holds; no step after that, a builder call included, changes the URI
   or the Request built, and a rendering is always the rendering of the value as
   it was built. *)
C24_BuiltValuesAreSnapshots ==
    [][ /\ (uri = None /\ IsSome(uri')) =>
               /\ ub' = ub
               /\ Unwrap(uri') = [url |-> Unwrap(ub).url, params |-> Unwrap(ub).params]
        /\ (req = None /\ IsSome(req')) =>
               /\ rb' = rb
               /\ Unwrap(req') = [method |-> Unwrap(rb).method, url |-> Unwrap(rb).url,
                                  headers |-> Unwrap(rb).headers,
                                  content |-> Unwrap(rb).content]
        /\ IsSome(uri) => uri' = uri
        /\ IsSome(req) => req' = req
        /\ IsSome(uri_str) => uri_str' = uri_str
        /\ IsSome(rendered) => rendered' = rendered
        /\ (uri_str = None /\ IsSome(uri_str')) =>
               \E order \in IterOrders(Unwrap(uri).params) :
                   Unwrap(uri_str') = URI_to_string(Unwrap(uri), order)
        /\ (rendered = None /\ IsSome(rendered')) =>
               \E horder \in IterOrders(Unwrap(req).headers),
                  porder \in IterOrders(Unwrap(req).url.params) :
                   Unwrap(rendered') = Request_to_string(Unwrap(req), horder, porder)
      ]_vars

\* both builders were called again after build(), and both values were rendered
C24_Witness ==
    /\ IsSome(uri) /\ IsSome(ub) /\ ~URIBuilderAsBuilt /\ IsSome(uri_str)
    /\ IsSome(req) /\ IsSome(rb) /\ ~RequestBuilderAsBuilt /\ IsSome(rendered)

----------------------------------------------------------------------------
(* C25: start_container answered with status 304 returns
   Err(DockerError::AlreadyStarted). *)
C25_AlreadyStartedOn304 ==
    (Answered /\ call.op = "start_container" /\ AnsweredStatus = 304) =>
        call.result = Err("AlreadyStarted")

----------------------------------------------------------------------------
(* C26: whatever status and body the daemon answers with, the operation returns
   Ok or Err(DockerError) and does not abort. *)
C26_AnsweredCallReturns ==
    Answered => call.result.kind \in {"Ok", "Err"}

\* C27: removing a container is always a DELETE request: the request Remover
\* builds and the request of each remove_container have the method DELETE
C27_RemoveIsDelete ==
    call.op \in {"Remover::to_request", "remove_container"} => call.method = "DELETE"

\* a rendered path that ends in '?' or '&'
EndsInSeparator(s) == s # <<>> /\ s[Len(s)] \in {"?", "&"}

\* the calls that render a request path
RenderOps ==
    {"Remover::to_request", "Killer::get_path", "networks::inspect::Request::get_path",
     "container::list::Request::get_path"}

\* no optional parameter of the request object is set
NoOptionalSet(a) ==
    /\ a.v = None /\ a.force = None /\ a.link = None /\ a.signal = None
    /\ ~a.verbose /\ a.scope = <<>>
    /\ a.all = None /\ a.limit = None /\ a.size = None /\ DOMAIN a.filters.label = {}

\* the path of each request object without its query
BarePath(op, a) ==
    CASE op = "Remover::to_request" -> STR_CONTAINERS \o a.id
      [] op = "Killer::get_path" -> STR_CONTAINERS \o a.id \o <<"/", "k", "i", "l", "l">>
      [] op = "networks::inspect::Request::get_path" -> STR_NETWORKS \o a.id
      [] op = "container::list::Request::get_path" -> STR_CONTAINERS_JSON

\* C28: a rendered request path, of URI::to_string and of each get_path, never
\* ends in '?' or '&', and is the bare path when no optional parameter is set
C28_NoTrailingSeparator ==
    /\ IsSome(uri_str) =>
           /\ ~EndsInSeparator(Unwrap(uri_str))
           /\ DOMAIN Unwrap(uri).params = {} => Unwrap(uri_str) = Unwrap(uri).url
    /\ call.op \in RenderOps =>
           /\ ~EndsInSeparator(call.path)
           /\ NoOptionalSet(call.args) => call.path = BarePath(call.op, call.args)

\* C29: DockerClient::new returns a client whatever DOCKER_HOST is: a Unix-socket
\* client on the path after unix://, a TCP client for any other value, and the
\* default client when the variable is unset
C29_NewAlwaysReturnsClient ==
    call.op = "DockerClient::new" =>
        LET docker_host == call.args.docker_host
        IN  /\ client.state = "built"
            /\ client.auth = None
            /\ IF IsSome(docker_host)
               THEN IF StartsWith(Unwrap(docker_host), STR_UNIX_PREFIX)
                    THEN /\ client.config = "UNIX"
                         /\ STR_UNIX_PREFIX \o client.host = Unwrap(docker_host)
                    ELSE /\ client.config = "TCP"
                         /\ client.host \in {Unwrap(docker_host),
                                             SubSeq(Unwrap(docker_host), Len(STR_TCP_PREFIX) + 1,
                                                    Len(Unwrap(docker_host)))}
               ELSE IF call.args.unix_socket
                    THEN client.config = "UNIX" /\ client.host = STR_DEFAULT_SOCKET
                    ELSE client.config = "TCP" /\ STR_TCP_PREFIX \o client.host = STR_DEFAULT_TCP

\* C30: pull_image sends X-Registry-Auth exactly when the client has auth, and
\* on a client without auth no header holds an aborted registry_auth
C30_AuthHeaderIffAuth ==
    call.op = "pull_image" =>
        LET sent == {i \in 1..Len(call.request.headers) :
                        call.request.headers[i][1] = "X-Registry-Auth"}
        IN  /\ (sent # {}) <=> IsSome(client.auth)
            /\ \A i \in sent : call.request.headers[i][2] = registry_auth(client)
            /\ \A i \in 1..Len(call.request.headers) : call.request.headers[i][2] # "panic"

\* reached: pull_image was called on a client built without auth, its request
\* has no header and the call returned
C30_Witness ==
    /\ call.op = "pull_image" /\ ~IsSome(client.auth) /\ call.request.headers = <<>>
    /\ call.result.kind \in {"Ok", "Err"}


====
